---- MODULE Spec2Model ----
(***************************************************************************)
(* Model of efinance/stock/getter.py: the bulk fetch of get_quote_history  *)
(* (get_quote_history_multi) and of get_base_info (get_base_info_muliti).  *)
(*                                                                         *)
(* One caller thread runs the public function; every start(stock_code)     *)
(* made through @multitasking.task creates one thread, whose body runs     *)
(* inside the default pool's semaphore.  @retry(tries) is applied on top   *)
(* of @multitasking.task, so what it re-runs is the call that creates and  *)
(* starts the thread; an exception raised by the body ends that thread     *)
(* only.  SIGINT runs multitasking.killall, which ends the process.        *)
(*                                                                         *)
(* The provider is a stub fixed per key before the call: a number of       *)
(* transient failures (the request raises) followed by a final answer:     *)
(* rows, "no data" (json 'data' is None), or failing for ever.             *)
(***************************************************************************)
EXTENDS Integers, Sequences, FiniteSets, TLC

\* ---------------------------------------------------------------- bounds
Keys == {"k1", "k2"}
MaxLen == 3

\* ------------------------------------------------------ program constants
\* tries: int = 3
tries == 3

\* size of multitasking's default pool (the number of CPUs); threads are
\* used from 2 on
MAX_THREADS == 2

VARIABLES
    phase,        \* position of the caller thread
    fn,           \* public function called: "none", "quote", "base"
    argKind,      \* type of the stock_codes argument: "str", "iter", "other"
    stock_codes,  \* the codes, as a sequence (one element for a str)
    plan,         \* the provider stub, per key
    dfs,          \* get_quote_history_multi: dfs
    ss,           \* get_base_info_muliti: ss
    pbar,         \* the tqdm bar: state, n, desc
    next,         \* index of the next element of the dispatch loop
    pc,           \* per task: position of its thread
    df,           \* per task: local _df / s
    ln,           \* per task: value of bar.n read by self.n += n
    req,          \* per task: which request for its key is pending
    fetchCalls,   \* per key: requests issued
    secidCalls,   \* calls of gen_secid
    updateCalls,  \* calls of update_local_market_stocks_info
    raised,       \* exception that reached the caller, or "none"
    result,       \* value returned to the caller
    interrupted,  \* SIGINT was delivered
    proc          \* "alive" or "exited"

vars == <<phase, fn, argKind, stock_codes, plan, dfs, ss, pbar, next, pc, df,
          ln, req, fetchCalls, secidCalls, updateCalls, raised, result,
          interrupted, proc>>

\* ---------------------------------------------------------------- values
Tasks == 1..MaxLen

EmptyMap == [k \in {} |-> <<"empty", "">>]

\* pd.DataFrame(columns=columns): no row, no code column
EmptyFrame == <<"empty", "">>

\* the frame built from data['klines'], tagged with stock_code
Rows(stock_code) == <<"rows", stock_code>>

NoBar == [state |-> "none", n |-> 0, desc |-> ""]

\* tqdm(total=total)
tqdm == [state |-> "open", n |-> 0, desc |-> ""]

CodeLists == UNION {[1..n -> Keys] : n \in 0..MaxLen}

Plans == {[fails |-> 0, final |-> "nodata"], [fails |-> 0, final |-> "raise"]}
         \cup {[fails |-> f, final |-> "ok"] : f \in 0..(tries - 1)}

\* answer of the provider to the n-th request for stock_code
Outcome(stock_code, n) ==
    IF n <= plan[stock_code].fails THEN "raise" ELSE plan[stock_code].final

Init ==
    /\ phase = "idle"
    /\ fn = "none"
    /\ argKind = "iter"
    /\ stock_codes = <<>>
    /\ plan \in [Keys -> Plans]
    /\ dfs = EmptyMap
    /\ ss = <<>>
    /\ pbar = NoBar
    /\ next = 1
    /\ pc = [i \in Tasks |-> "none"]
    /\ df = [i \in Tasks |-> EmptyFrame]
    /\ ln = [i \in Tasks |-> 0]
    /\ req = [i \in Tasks |-> 0]
    /\ fetchCalls = [k \in Keys |-> 0]
    /\ secidCalls = 0
    /\ updateCalls = 0
    /\ raised = "none"
    /\ result = EmptyMap
    /\ interrupted = FALSE
    /\ proc = "alive"

\* ------------------------------------------------------- single fetches
\* variant: a None 'data' raises as well
quote_single_raises_nodata(outcome) == outcome \in {"raise", "nodata"}

\* get_quote_history_single: the request (or .json(), or data['name'])
\* raises; a None 'data' is answered with the empty frame
quote_single_raises(outcome) == outcome = "raise"

quote_single_frame(stock_code, outcome) ==
    IF outcome = "nodata" THEN EmptyFrame ELSE Rows(stock_code)

\* variant: get_base_info_single answers a failed request with a row
base_single_raises_never(outcome) == outcome = "never"

\* get_base_info_single: a None 'data' gives an empty Series, and the
\* selection s[EastmoneyStockInfo.values()] raises KeyError
base_single_raises(outcome) == outcome \in {"raise", "nodata"}

single_raises(f, outcome) ==
    IF f = "quote" THEN quote_single_raises(outcome)
    ELSE base_single_raises(outcome)

single_frame(f, stock_code, outcome) ==
    IF f = "quote" THEN quote_single_frame(stock_code, outcome)
    ELSE Rows(stock_code)

\* ---------------------------------------------------------- the caller
\* variant: no final else, whatever is not a str goes to the batch
Dispatch_lenient(kind) ==
    CASE kind = "str" -> "single"
      [] OTHER -> "multi"

\* isinstance(stock_codes, str) / hasattr(stock_codes, '__iter__') / else
Dispatch(kind) ==
    CASE kind = "str" -> "single"
      [] kind = "iter" -> "multi"
      [] OTHER -> "TypeError"

Enter(f) ==
    /\ proc = "alive"
    /\ phase = "idle"
    /\ fn' = f
    /\ \E kind \in {"str", "iter", "other"} :
         /\ argKind' = kind
         /\ CASE Dispatch(kind) = "single" ->
                   /\ \E k \in Keys : stock_codes' = <<k>>
                   /\ phase' = "single"
                   /\ raised' = raised
              [] Dispatch(kind) = "multi" ->
                   /\ stock_codes' \in CodeLists
                   /\ phase' = "multi"
                   /\ raised' = raised
              [] OTHER ->
                   /\ stock_codes' = stock_codes
                   /\ phase' = "raised"
                   /\ raised' = "TypeError"
    /\ UNCHANGED <<plan, dfs, ss, pbar, next, pc, df, ln, req, fetchCalls,
                   secidCalls, updateCalls, result, interrupted, proc>>

get_quote_history == Enter("quote")

get_base_info == Enter("base")

\* get_quote_history_single / get_base_info_single run by the caller
call_single ==
    /\ proc = "alive"
    /\ phase = "single"
    /\ LET k == stock_codes[1]
           o == Outcome(k, fetchCalls[k] + 1)
       IN /\ secidCalls' = secidCalls + 1
          /\ fetchCalls' = [fetchCalls EXCEPT ![k] = @ + 1]
          /\ IF single_raises(fn, o)
             THEN /\ phase' = "raised"
                  /\ raised' = "FetchError"
                  /\ result' = result
             ELSE /\ phase' = "returned"
                  /\ raised' = raised
                  /\ result' = single_frame(fn, k, o)
    /\ UNCHANGED <<fn, argKind, stock_codes, plan, dfs, ss, pbar, next, pc,
                   df, ln, req, updateCalls, interrupted, proc>>

\* variant: the refresh is never made
NeedsUpdate_never(total) == total < 0

\* variant: the refresh is made whatever the total
NeedsUpdate_always(total) == total >= 0

\* get_quote_history_multi: if total != 0
NeedsUpdate(total) == total # 0

\* get_quote_history_multi up to the dispatch loop: dfs = {}, the refresh
\* of the local market table (which may raise), pbar = tqdm(total=total)
quote_multi_begin ==
    /\ proc = "alive"
    /\ phase = "multi"
    /\ fn = "quote"
    /\ dfs' = EmptyMap
    /\ \E ok \in BOOLEAN :
         IF NeedsUpdate(Len(stock_codes))
         THEN /\ updateCalls' = updateCalls + 1
              /\ IF ok
                 THEN /\ pbar' = tqdm
                      /\ phase' = "loop"
                      /\ raised' = raised
                 ELSE /\ pbar' = pbar
                      /\ phase' = "raised"
                      /\ raised' = "UpdateError"
         ELSE /\ ok
              /\ updateCalls' = updateCalls
              /\ pbar' = tqdm
              /\ phase' = "loop"
              /\ raised' = raised
    /\ next' = 1
    /\ UNCHANGED <<fn, argKind, stock_codes, plan, ss, pc, df, ln, req,
                   fetchCalls, secidCalls, result, interrupted, proc>>

\* get_base_info_muliti up to the dispatch loop: ss = [], bar = tqdm(...)
base_multi_begin ==
    /\ proc = "alive"
    /\ phase = "multi"
    /\ fn = "base"
    /\ ss' = <<>>
    /\ pbar' = tqdm
    /\ phase' = "loop"
    /\ next' = 1
    /\ UNCHANGED <<fn, argKind, stock_codes, plan, dfs, pc, df, ln, req,
                   fetchCalls, secidCalls, updateCalls, raised, result,
                   interrupted, proc>>

\* variant: a worker pool, a task is started when a worker is free
Spawn_bounded ==
    /\ proc = "alive"
    /\ phase = "loop"
    /\ next <= Len(stock_codes)
    /\ Cardinality({i \in Tasks : pc[i] \in {"queued", "fetch", "record",
                                             "load", "store", "desc"}})
         < MAX_THREADS
    /\ pc' = [pc EXCEPT ![next] = "queued"]
    /\ next' = next + 1
    /\ UNCHANGED <<phase, fn, argKind, stock_codes, plan, dfs, ss, pbar, df,
                   ln, req, fetchCalls, secidCalls, updateCalls, raised, result,
                   interrupted, proc>>

\* for stock_code in stock_codes: start(stock_code).  The decorated start
\* creates and starts the thread and returns it; retry sees no exception
\* and returns after this first call.
Spawn ==
    /\ proc = "alive"
    /\ phase = "loop"
    /\ next <= Len(stock_codes)
    /\ pc' = [pc EXCEPT ![next] = "queued"]
    /\ next' = next + 1
    /\ UNCHANGED <<phase, fn, argKind, stock_codes, plan, dfs, ss, pbar, df,
                   ln, req, fetchCalls, secidCalls, updateCalls, raised, result,
                   interrupted, proc>>

\* variant: the join gives up at once
TasksJoined_nowait == TRUE

\* multitasking.wait_for_tasks(): every created thread has ended
TasksJoined == \A i \in Tasks : pc[i] \in {"none", "done", "died"}

\* wait_for_tasks, then pbar.close(); return dfs  /  return DataFrame(ss)
wait_for_tasks ==
    /\ proc = "alive"
    /\ phase = "loop"
    /\ next > Len(stock_codes)
    /\ TasksJoined
    /\ phase' = "returned"
    /\ IF fn = "quote"
       THEN /\ pbar' = [pbar EXCEPT !.state = "closed"]
            /\ result' = dfs
       ELSE /\ pbar' = pbar
            /\ result' = ss
    /\ UNCHANGED <<fn, argKind, stock_codes, plan, dfs, ss, next, pc, df, ln, req,
                   fetchCalls, secidCalls, updateCalls, raised, interrupted,
                   proc>>

\* ------------------------------------------------------------ the tasks
InPool == {i \in Tasks : pc[i] \in {"fetch", "record", "load", "store", "desc"}}

\* _run_via_pool: with pool (a Semaphore of MAX_THREADS); the body begins:
\* gen_secid(stock_code), then the request is sent
Begin(i) ==
    /\ proc = "alive"
    /\ pc[i] = "queued"
    /\ Cardinality(InPool) < MAX_THREADS
    /\ pc' = [pc EXCEPT ![i] = "fetch"]
    /\ secidCalls' = secidCalls + 1
    /\ fetchCalls' = [fetchCalls EXCEPT ![stock_codes[i]] = @ + 1]
    /\ req' = [req EXCEPT ![i] = fetchCalls[stock_codes[i]] + 1]
    /\ UNCHANGED <<phase, fn, argKind, stock_codes, plan, dfs, ss, pbar, next,
                   df, ln, updateCalls, raised, result, interrupted, proc>>

\* variant: the body is run again after a fetch that did not raise
FetchReturn_refetch(i) ==
    /\ proc = "alive"
    /\ pc[i] = "fetch"
    /\ LET k == stock_codes[i]
           o == Outcome(k, req[i])
       IN IF single_raises(fn, o)
          THEN /\ pc' = [pc EXCEPT ![i] = "died"]
               /\ df' = df
          ELSE /\ pc' = [pc EXCEPT ![i] =
                            IF fetchCalls[k] < 2 THEN "queued" ELSE "record"]
               /\ df' = [df EXCEPT ![i] = single_frame(fn, k, o)]
    /\ req' = [req EXCEPT ![i] = 0]
    /\ UNCHANGED <<phase, fn, argKind, stock_codes, plan, dfs, ss, pbar, next,
                   ln, fetchCalls, secidCalls, updateCalls, raised, result,
                   interrupted, proc>>

\* variant: the body runs in the caller's thread, its exception reaches
\* the caller
FetchReturn_propagates(i) ==
    /\ proc = "alive"
    /\ pc[i] = "fetch"
    /\ LET k == stock_codes[i]
           o == Outcome(k, req[i])
       IN IF single_raises(fn, o)
          THEN /\ pc' = [pc EXCEPT ![i] = "died"]
               /\ df' = df
               /\ phase' = "raised"
               /\ raised' = "FetchError"
          ELSE /\ pc' = [pc EXCEPT ![i] = "record"]
               /\ df' = [df EXCEPT ![i] = single_frame(fn, k, o)]
               /\ phase' = phase
               /\ raised' = raised
    /\ req' = [req EXCEPT ![i] = 0]
    /\ UNCHANGED <<fn, argKind, stock_codes, plan, dfs, ss, pbar, next,
                   ln, fetchCalls, secidCalls, updateCalls, result,
                   interrupted, proc>>

\* the request of task i is answered, and *_single returns or raises; an
\* exception ends the thread (the semaphore is released by the with)
FetchReturn(i) ==
    /\ proc = "alive"
    /\ pc[i] = "fetch"
    /\ LET k == stock_codes[i]
           o == Outcome(k, req[i])
       IN IF single_raises(fn, o)
          THEN /\ pc' = [pc EXCEPT ![i] = "died"]
               /\ df' = df
          ELSE /\ pc' = [pc EXCEPT ![i] = "record"]
               /\ df' = [df EXCEPT ![i] = single_frame(fn, k, o)]
    /\ req' = [req EXCEPT ![i] = 0]
    /\ UNCHANGED <<phase, fn, argKind, stock_codes, plan, dfs, ss, pbar, next,
                   ln, fetchCalls, secidCalls, updateCalls, raised, result,
                   interrupted, proc>>

\* variant: every entry of the map is bound to the frame stored last
record_clobber(map, stock_code, frame) ==
    [k \in DOMAIN map \cup {stock_code} |-> frame]

\* variant: the store replaces the map (a lost update)
record_lost(map, stock_code, frame) == [k \in {stock_code} |-> frame]

\* dfs[stock_code] = _df
record(map, stock_code, frame) ==
    [k \in DOMAIN map \cup {stock_code} |->
        IF k = stock_code THEN frame ELSE map[k]]

\* dfs[stock_code] = _df   /   ss.append(s)
RecordEntry(i) ==
    /\ proc = "alive"
    /\ pc[i] = "record"
    /\ IF fn = "quote"
       THEN /\ dfs' = record(dfs, stock_codes[i], df[i])
            /\ ss' = ss
       ELSE /\ ss' = Append(ss, df[i])
            /\ dfs' = dfs
    /\ pc' = [pc EXCEPT ![i] = "load"]
    /\ UNCHANGED <<phase, fn, argKind, stock_codes, plan, pbar, next, df, ln, req,
                   fetchCalls, secidCalls, updateCalls, raised, result,
                   interrupted, proc>>

\* variant: the bar is advanced without waiting for the store into the map
UpdateLoad_early(i) ==
    /\ proc = "alive"
    /\ pc[i] \in {"record", "load"}
    /\ ln' = [ln EXCEPT ![i] = pbar.n]
    /\ pc' = [pc EXCEPT ![i] = "store"]
    /\ UNCHANGED <<phase, fn, argKind, stock_codes, plan, dfs, ss, pbar, next,
                   df, req, fetchCalls, secidCalls, updateCalls, raised, result,
                   interrupted, proc>>

\* pbar.update(1): self.n += n, the read of self.n
UpdateLoad(i) ==
    /\ proc = "alive"
    /\ pc[i] = "load"
    /\ ln' = [ln EXCEPT ![i] = pbar.n]
    /\ pc' = [pc EXCEPT ![i] = "store"]
    /\ UNCHANGED <<phase, fn, argKind, stock_codes, plan, dfs, ss, pbar, next,
                   df, req, fetchCalls, secidCalls, updateCalls, raised, result,
                   interrupted, proc>>

\* pbar.update(1): self.n += n, the write of self.n
UpdateStore(i) ==
    /\ proc = "alive"
    /\ pc[i] = "store"
    /\ pbar' = [pbar EXCEPT !.n = ln[i] + 1]
    /\ ln' = [ln EXCEPT ![i] = 0]
    /\ pc' = [pc EXCEPT ![i] = "desc"]
    /\ UNCHANGED <<phase, fn, argKind, stock_codes, plan, dfs, ss, next, df, req,
                   fetchCalls, secidCalls, updateCalls, raised, result,
                   interrupted, proc>>

\* pbar.set_description_str(f'Processing: {stock_code}'); the body ends
SetDescription(i) ==
    /\ proc = "alive"
    /\ pc[i] = "desc"
    /\ pbar' = [pbar EXCEPT !.desc = stock_codes[i]]
    /\ pc' = [pc EXCEPT ![i] = "done"]
    /\ UNCHANGED <<phase, fn, argKind, stock_codes, plan, dfs, ss, next, df,
                   ln, req, fetchCalls, secidCalls, updateCalls, raised, result,
                   interrupted, proc>>

\* the bar raises while it displays (pbar.update after self.n += n, or
\* set_description_str): the body ends there, its entry already stored
ReportFails(i) ==
    /\ proc = "alive"
    /\ pc[i] = "desc"
    /\ pc' = [pc EXCEPT ![i] = "done"]
    /\ UNCHANGED <<phase, fn, argKind, stock_codes, plan, dfs, ss, pbar, next,
                   df, ln, req, fetchCalls, secidCalls, updateCalls, raised,
                   result, interrupted, proc>>

\* ------------------------------------------------------------ interrupt
\* variant: the handler makes the pending batch call return its map
killall_returns ==
    /\ proc = "alive"
    /\ interrupted' = TRUE
    /\ proc' = proc
    /\ IF phase = "loop"
       THEN /\ phase' = "returned"
            /\ result' = dfs
       ELSE /\ phase' = phase
            /\ result' = result
    /\ UNCHANGED <<fn, argKind, stock_codes, plan, dfs, ss, pbar, next,
                   pc, df, ln, req, fetchCalls, secidCalls, updateCalls,
                   raised>>

\* signal.signal(signal.SIGINT, multitasking.killall): the handler sets
\* KILL_RECEIVED and ends the process (sys.exit, then os._exit(0))
killall ==
    /\ proc = "alive"
    /\ interrupted' = TRUE
    /\ proc' = "exited"
    /\ UNCHANGED <<phase, fn, argKind, stock_codes, plan, dfs, ss, pbar, next,
                   pc, df, ln, req, fetchCalls, secidCalls, updateCalls, raised,
                   result>>

\* the steps of a call of get_quote_history
QuoteStep ==
    \/ get_quote_history
    \/ call_single
    \/ quote_multi_begin
    \/ Spawn
    \/ wait_for_tasks
    \/ \E i \in Tasks : Begin(i)
    \/ \E i \in Tasks : FetchReturn(i)
    \/ \E i \in Tasks : RecordEntry(i)
    \/ \E i \in Tasks : UpdateLoad(i)
    \/ \E i \in Tasks : UpdateStore(i)
    \/ \E i \in Tasks : SetDescription(i)
    \/ \E i \in Tasks : ReportFails(i)

Step ==
    \/ QuoteStep
    \/ get_base_info
    \/ base_multi_begin

Next == Step \/ killall

Spec == Init /\ [][Next]_vars

\* the runs of get_quote_history without interrupt, in which every thread
\* that can run does run, every request is answered and the caller goes on
FairSpec == Init /\ [][QuoteStep]_vars /\ WF_vars(QuoteStep)

TypeOK ==
    /\ phase \in {"idle", "single", "multi", "loop", "returned", "raised"}
    /\ fn \in {"none", "quote", "base"}
    /\ stock_codes \in CodeLists
    /\ pbar.n \in 0..MaxLen
    /\ \A i \in Tasks : pc[i] \in {"none", "queued", "fetch", "record", "load",
                                   "store", "desc", "done", "died"}

\* ================================================================ claims
QuoteBatch == fn = "quote" /\ argKind = "iter"

N == Len(stock_codes)

CodeSet == {stock_codes[i] : i \in 1..N}

Distinct == \A i, j \in 1..N : i # j => stock_codes[i] # stock_codes[j]

Returned == phase = "returned"

\* the stub of key k
Succeeds(k) == plan[k] = [fails |-> 0, final |-> "ok"]

TransientThenOk(k) ==
    plan[k].final = "ok" /\ plan[k].fails >= 1 /\ plan[k].fails < tries

AlwaysFails(k) == plan[k].final = "raise"

Permanent(k) == plan[k].final = "nodata"

\* tasks whose thread has ended / whose store into dfs was made
Ended == {i \in 1..N : pc[i] \in {"done", "died"}}

Completed == {i \in 1..N : pc[i] = "done"}

Recorded == {i \in 1..N : pc[i] \in {"load", "store", "desc", "done"}}

\* C1: a batch of N distinct keys whose fetches all succeed returns, under
\* every interleaving of the tasks, a map with exactly N entries, one per
\* key, each the frame fetched for that key.
C1_AllRecorded ==
    (QuoteBatch /\ Returned /\ Distinct /\ \A k \in CodeSet : Succeeds(k))
    => /\ DOMAIN result = CodeSet
       /\ Cardinality(DOMAIN result) = N
       /\ \A k \in CodeSet : result[k] = Rows(k)

C1_Witness ==
    /\ QuoteBatch /\ Returned /\ Distinct /\ N >= 2
    /\ \A k \in CodeSet : Succeeds(k)
    /\ ~interrupted

\* C2: a key whose fetch raises k times, 1 <= k < tries, and then succeeds
\* has the success frame in the returned map.
C2_RetryMasks ==
    (QuoteBatch /\ Returned /\ Distinct)
    => \A k \in CodeSet :
         TransientThenOk(k) => (k \in DOMAIN result /\ result[k] = Rows(k))

\* C3: a key whose fetch raises on every attempt is fetched exactly tries
\* times and has the empty frame in the returned map.
C3_PlaceholderAfterTries ==
    (QuoteBatch /\ Returned /\ Distinct)
    => \A k \in CodeSet :
         AlwaysFails(k) => /\ fetchCalls[k] = tries
                           /\ k \in DOMAIN result
                           /\ result[k] = EmptyFrame

\* C4: a key for which the provider reports no data is fetched once, never
\* again, and has the empty frame in the returned map.
C4_PermanentOnce ==
    (QuoteBatch /\ Distinct)
    => \A k \in CodeSet :
         Permanent(k) => /\ fetchCalls[k] <= 1
                         /\ Returned => /\ fetchCalls[k] = 1
                                        /\ k \in DOMAIN result
                                        /\ result[k] = EmptyFrame

C4_Witness ==
    /\ QuoteBatch /\ Returned /\ Distinct /\ N >= 2
    /\ \E k \in CodeSet : Permanent(k) /\ result[k] = EmptyFrame

\* C5: whatever the fetches do, a batch of N distinct keys that was not
\* cancelled returns a map with exactly N entries, one per submitted key.
C5_ExactlyN ==
    (QuoteBatch /\ Returned /\ Distinct)
    => (DOMAIN result = CodeSet /\ Cardinality(DOMAIN result) = N)

\* C6: no failure of a key's fetch is raised to the caller of the batch,
\* and the returned map holds the success frame of every key whose fetch
\* succeeded.
C6_NoPropagation ==
    QuoteBatch
    => /\ raised # "FetchError"
       /\ Returned =>
            \A i \in 1..N :
              (pc[i] = "done" /\ df[i] = Rows(stock_codes[i]))
              => /\ stock_codes[i] \in DOMAIN result
                 /\ result[stock_codes[i]] = Rows(stock_codes[i])

C6_Witness ==
    /\ QuoteBatch /\ Returned
    /\ \E i, j \in 1..N :
         /\ pc[i] = "died"
         /\ pc[j] = "done" /\ df[j] = Rows(stock_codes[j])
         /\ result[stock_codes[j]] = Rows(stock_codes[j])

C8_EmptyFastPath ==
    (QuoteBatch /\ phase # "idle" /\ stock_codes = <<>>)
    => /\ \A i \in Tasks : pc[i] = "none"
       /\ \A k \in Keys : fetchCalls[k] = 0
       /\ updateCalls = 0
       /\ secidCalls = 0
       /\ raised = "none"
       /\ Returned => DOMAIN result = {}

C8_Witness ==
    /\ QuoteBatch /\ Returned /\ stock_codes = <<>>
    /\ DOMAIN result = {} /\ pbar.state = "closed"

\* C9: an argument that is neither a str nor an iterable makes
\* get_quote_history and get_base_info raise TypeError at once: no task,
\* no request, and neither the map, the list nor the bar is touched.
C9_TypeError ==
    (argKind = "other" /\ phase # "idle")
    => /\ phase = "raised"
       /\ raised = "TypeError"
       /\ \A i \in Tasks : pc[i] = "none"
       /\ \A k \in Keys : fetchCalls[k] = 0
       /\ secidCalls = 0
       /\ updateCalls = 0
       /\ DOMAIN dfs = {}
       /\ ss = <<>>
       /\ pbar = NoBar

C9_Witness ==
    /\ argKind = "other" /\ fn \in {"quote", "base"}
    /\ phase = "raised" /\ raised = "TypeError"

\* C10: without interrupt, the batch returns only when every task it
\* created has ended; after the return neither the map nor the bar is
\* written; and, threads being scheduled and requests being answered, the
\* batch does return.
C10_ReturnAfterJoin ==
    /\ []((QuoteBatch /\ Returned) => Ended = 1..N)
    /\ [][(QuoteBatch /\ Returned) => (dfs' = dfs /\ pbar' = pbar)]_vars
    /\ ((QuoteBatch /\ phase = "loop") ~> Returned)

C10_Witness ==
    /\ QuoteBatch /\ Returned /\ ~interrupted
    /\ N >= 2 /\ Ended = 1..N /\ pbar.state = "closed"

BaseBatch == fn = "base" /\ argKind = "iter"

\* number of elements of the list equal to k
Occ(k) == Cardinality({i \in 1..N : stock_codes[i] = k})

\* number of elements of seq equal to x
Count(seq, x) == Cardinality({j \in 1..Len(seq) : seq[j] = x})

\* tasks started and not ended
InFlight == {i \in 1..N : pc[i] \in {"queued", "fetch", "record", "load",
                                     "store", "desc"}}

\* tasks between the read of the count and the store of the label
Advancing == {i \in 1..N : pc[i] \in {"store", "desc"}}

\* C11: a task stores its entry before it advances the bar: for distinct
\* keys the count never exceeds the number of entries of the map, and a
\* failure of the bar in the task of key k leaves the entry of k, the rest
\* of the map and every other task as they were.
C11_RecordBeforeAdvance ==
    /\ []((QuoteBatch /\ Distinct) => pbar.n <= Cardinality(DOMAIN dfs))
    /\ [][\A i \in 1..N :
            (QuoteBatch /\ Distinct
               /\ pc[i] = "desc" /\ pc'[i] = "done" /\ pbar' = pbar)
            => /\ stock_codes[i] \in DOMAIN dfs
               /\ dfs[stock_codes[i]] = df[i]
               /\ dfs' = dfs
               /\ \A j \in Tasks \ {i} : pc'[j] = pc[j] /\ df'[j] = df[j]]_vars

C11_Witness ==
    /\ QuoteBatch /\ Distinct /\ N >= 2 /\ Returned
    /\ pbar.desc = "" /\ pbar.n >= 1
    /\ Cardinality(DOMAIN result) = N

\* C12: the count never exceeds the number of tasks and, when a batch of
\* distinct keys whose fetches all succeed returns, every task has been
\* counted once: the count is N.
C12_CountsEveryTask ==
    (QuoteBatch /\ Distinct)
    => /\ pbar.n <= N
       /\ (Returned /\ \A k \in CodeSet : Succeeds(k)) => pbar.n = N

\* C13: the increment of the count and the store of the label of one task
\* are one atomic step: no two tasks are inside an advance at once.
C13_AdvanceAtomic ==
    (QuoteBatch /\ Distinct) => Cardinality(Advancing) <= 1

\* C14: in a batch of distinct keys no key is requested more than tries
\* times, and a key is requested again only when all its earlier requests
\* failed transiently.
C14_AttemptsCapped ==
    (QuoteBatch /\ Distinct)
    => \A k \in Keys :
         /\ fetchCalls[k] <= tries
         /\ \A n \in 1..(fetchCalls[k] - 1) : Outcome(k, n) = "raise"

C14_Witness ==
    /\ QuoteBatch /\ Distinct /\ N >= 2 /\ Returned
    /\ \E k \in CodeSet : plan[k].fails >= 1 /\ fetchCalls[k] = 1
    /\ \E k \in CodeSet : Succeeds(k) /\ fetchCalls[k] = 1

\* C15: in a batch of distinct keys an entry of the map, once present, is
\* never changed or removed; the map changes only by the store of one task,
\* which adds the entry of its own key with its own frame; and a step of a
\* task leaves everything the caller owns unchanged.
C15_RecordFrame ==
    [][(QuoteBatch /\ Distinct)
       => /\ \A k \in DOMAIN dfs : k \in DOMAIN dfs' /\ dfs'[k] = dfs[k]
          /\ dfs' # dfs
             => \E i \in 1..N :
                  /\ pc[i] = "record" /\ pc'[i] = "load"
                  /\ stock_codes[i] \notin DOMAIN dfs
                  /\ DOMAIN dfs' = DOMAIN dfs \cup {stock_codes[i]}
                  /\ dfs'[stock_codes[i]] = df[i]
          /\ (pc' # pc /\ next' = next)
             => UNCHANGED <<phase, fn, argKind, stock_codes, ss, result,
                            raised, updateCalls, interrupted, proc>>]_vars

C15_Witness ==
    /\ QuoteBatch /\ Distinct /\ phase = "loop"
    /\ Cardinality(DOMAIN dfs) = 2
    /\ \A k \in DOMAIN dfs : dfs[k] = Rows(k)

C17_UpdateOnceFirst ==
    /\ []((QuoteBatch /\ N > 0)
          => /\ updateCalls <= 1
             /\ phase \in {"loop", "returned"} => updateCalls = 1
             /\ ((\E i \in Tasks : pc[i] # "none")
                   \/ (\E k \in Keys : fetchCalls[k] > 0)) => updateCalls = 1
             /\ phase = "raised"
                => /\ raised = "UpdateError"
                   /\ updateCalls = 1
                   /\ \A i \in Tasks : pc[i] = "none"
                   /\ \A k \in Keys : fetchCalls[k] = 0
                   /\ pbar = NoBar)
    /\ [][(QuoteBatch /\ pc' # pc) => updateCalls' = updateCalls]_vars

C17_Witness ==
    /\ QuoteBatch /\ N >= 2 /\ raised = "UpdateError" /\ updateCalls = 1
    /\ \A i \in Tasks : pc[i] = "none"

\* C18: for a list with a repeated key whose fetches all succeed, one
\* request is made per element, the returned map has one entry per distinct
\* key, and the count ends at the length of the list.
C18_Duplicates ==
    (QuoteBatch /\ Returned /\ ~Distinct /\ \A k \in CodeSet : Succeeds(k))
    => /\ \A k \in Keys : fetchCalls[k] = Occ(k)
       /\ DOMAIN result = CodeSet
       /\ pbar.n = N

\* C19: get_base_info_muliti requests every element once; no exception
\* reaches the caller; rows are only ever appended; and the returned rows
\* are those of the elements whose request succeeded, and no other.
C19_BaseRows ==
    /\ [](BaseBatch
          => /\ raised = "none"
             /\ \A k \in Keys : fetchCalls[k] <= Occ(k)
             /\ Returned
                => /\ result = ss
                   /\ \A j \in 1..Len(result) :
                        result[j] \in {Rows(k) : k \in CodeSet}
                   /\ \A k \in Keys :
                        /\ fetchCalls[k] = Occ(k)
                        /\ Count(result, Rows(k))
                             = Cardinality({n \in 1..Occ(k) :
                                              Outcome(k, n) = "ok"}))
    /\ [][BaseBatch
          => \/ ss' = ss
             \/ /\ Len(ss') = Len(ss) + 1
                /\ SubSeq(ss', 1, Len(ss)) = ss]_vars

C19_Witness ==
    /\ BaseBatch /\ Returned /\ N >= 2
    /\ Len(result) >= 1 /\ Len(result) < N
    /\ \E i \in 1..N : pc[i] = "died"

====
